---- MODULE Spec2Model ----
(***************************************************************************)
(* Model of src/mod6_labs/main.py: the WeatherApp of a Flet weather        *)
(* application.                                                            *)
(*                                                                         *)
(* Representation.                                                         *)
(*  - A Python str on which the code does character work (the condition    *)
(*    code weather_id, the city typed in the text field) is a sequence of  *)
(*    one-character strings: "800" is <<"8","0","0">>, "" is <<>>.         *)
(*    Texts that are only stored and shown are TLA+ strings.               *)
(*  - A Python dict is a function whose DOMAIN is the set of its keys, so  *)
(*    dict.get(key, default) can be modelled by what it does.              *)
(*  - A temperature is an integer number of tenths of a degree Celsius:    *)
(*    35.0 is 350, 5.0 is 50, 28.0 is 280.                                 *)
(*  - Colors and icons are named by strings (ft.colors.RED_700 is          *)
(*    "RED_700"; an emoji is named in words).                              *)
(*  - get_weather is a coroutine scheduled on the page's event loop by     *)
(*    page.run_task; coroutines of one loop interleave only at an await.   *)
(*    get_weather has one await (the fetch), so it is two steps: up to the *)
(*    await, and from the fetch's outcome to the end.                      *)
(***************************************************************************)
EXTENDS Integers, Sequences, FiniteSets, Bags, TLC

VARIABLES
    city_input,   \* self.city_input.value
    scheduled,    \* get_weather coroutines handed to page.run_task, not yet started
    pending,      \* bag of the local `city` of the coroutines suspended at the await
    searches,     \* number of on_search events so far
    ui,           \* the widgets' fields and page.bgcolor
    repaints,     \* what each page.update() of the last step painted, in order
    op            \* the last step: which operation ran and what it computed

vars == <<city_input, scheduled, pending, searches, ui, repaints, op>>

\* The number of on_search events a behaviour may hold.
MaxSearches == 2

-----------------------------------------------------------------------------
\* Python values

\* None
None == [none |-> TRUE]

\* {}
EmptyDict == <<>>

\* d.get(k, default)
Get(d, k, default) == IF k \in DOMAIN d THEN d[k] ELSE default

\* A value that is a Python int n, and one that is a Python str s.
PyInt(n) == [int |-> n]
PyStr(s) == [str |-> s]

Digits == <<"0", "1", "2", "3", "4", "5", "6", "7", "8", "9">>

\* The decimal digits of a natural number.
RECURSIVE NatToStr(_)
NatToStr(n) ==
    IF n < 10 THEN <<Digits[n + 1]>>
    ELSE Append(NatToStr(n \div 10), Digits[(n % 10) + 1])

\* str(v): the decimal form of an int, a str itself.
str(v) ==
    IF "int" \in DOMAIN v
    THEN IF v.int < 0 THEN <<"-">> \o NatToStr(-v.int) ELSE NatToStr(v.int)
    ELSE v.str

\* s.startswith(prefix), prefix a str
startswith(s, prefix) ==
    /\ Len(prefix) <= Len(s)
    /\ SubSeq(s, 1, Len(prefix)) = prefix

\* s.startswith(prefixes), prefixes a tuple of str
startswith_any(s, prefixes) ==
    \E i \in DOMAIN prefixes : startswith(s, prefixes[i])

Whitespace == {" "}

\* s.strip()
RECURSIVE lstrip(_)
lstrip(s) == IF s # <<>> /\ Head(s) \in Whitespace THEN lstrip(Tail(s)) ELSE s

RECURSIVE rstrip(_)
rstrip(s) ==
    IF s # <<>> /\ s[Len(s)] \in Whitespace
    THEN rstrip(SubSeq(s, 1, Len(s) - 1))
    ELSE s

strip(s) == rstrip(lstrip(s))

-----------------------------------------------------------------------------
\* The tables

WEATHER_MAPPING ==
    [k \in {"2", "3", "5", "6", "7", "800", "8", "default"} |->
        CASE k = "2" -> [color |-> "DEEP_PURPLE_800", icon |-> "thunder cloud and rain"]
          [] k = "3" -> [color |-> "BLUE_GREY_700", icon |-> "cloud with rain"]
          [] k = "5" -> [color |-> "INDIGO_600", icon |-> "umbrella with rain drops"]
          [] k = "6" -> [color |-> "LIGHT_BLUE_200", icon |-> "snowflake"]
          [] k = "7" -> [color |-> "BLUE_GREY_400", icon |-> "fog"]
          [] k = "800" -> [color |-> "YELLOW_400", icon |-> "sun"]
          [] k = "8" -> [color |-> "BLUE_GREY_300", icon |-> "cloud"]
          [] OTHER -> [color |-> "WHITE", icon |-> "question mark"]]

HEAT_temp == 350
COLD_temp == 50
SUN_uv_temp == 280

ALERT_THRESHOLDS ==
    [k \in {"HEAT", "COLD", "RAIN", "SUN"} |->
        CASE k = "HEAT" ->
                [temp |-> HEAT_temp, color |-> "RED_700",
                 recommendation |-> "EXTREME HEAT WARNING! Stay hydrated and limit outdoor activity."]
          [] k = "COLD" ->
                [temp |-> COLD_temp, color |-> "BLUE_700",
                 recommendation |-> "COLD WARNING! Wear warm layers and protect exposed skin."]
          [] k = "RAIN" ->
                [group_id_prefix |-> <<"5">>, color |-> "ORANGE_700",
                 recommendation |-> "Heavy Rain Expected. Bring an umbrella and drive safely."]
          [] OTHER ->
                [uv_temp |-> SUN_uv_temp, color |-> "YELLOW_800",
                 recommendation |-> "High UV Index expected. Wear sunscreen and a hat."]]

-----------------------------------------------------------------------------
\* check_alerts

\* Mutant of SUN_EXCLUDED: the SUN rule excluding every category key of the
\* classifier instead of the three prefixes.
SUN_EXCLUDED_category_keys ==
    << <<"2">>, <<"3">>, <<"5">>, <<"6">>, <<"7">>, <<"8">> >>

\* The tuple ('6', '2', '5') of the SUN rule.
SUN_EXCLUDED == << <<"6">>, <<"2">>, <<"5">> >>

\* Mutant of check_alerts: the RAIN rule tested before the COLD rule.
check_alerts_rain_before_cold(temp, weather_id) ==
    IF temp >= ALERT_THRESHOLDS["HEAT"].temp
    THEN ALERT_THRESHOLDS["HEAT"]
    ELSE IF \/ startswith(weather_id, ALERT_THRESHOLDS["RAIN"].group_id_prefix)
            \/ startswith(weather_id, <<"2">>)
    THEN ALERT_THRESHOLDS["RAIN"]
    ELSE IF temp <= ALERT_THRESHOLDS["COLD"].temp
    THEN ALERT_THRESHOLDS["COLD"]
    ELSE IF /\ temp >= ALERT_THRESHOLDS["SUN"].uv_temp
            /\ ~startswith_any(weather_id, SUN_EXCLUDED)
    THEN ALERT_THRESHOLDS["SUN"]
    ELSE None

check_alerts(temp, weather_id) ==
    IF temp >= ALERT_THRESHOLDS["HEAT"].temp
    THEN ALERT_THRESHOLDS["HEAT"]
    ELSE IF temp <= ALERT_THRESHOLDS["COLD"].temp
    THEN ALERT_THRESHOLDS["COLD"]
    ELSE IF \/ startswith(weather_id, ALERT_THRESHOLDS["RAIN"].group_id_prefix)
            \/ startswith(weather_id, <<"2">>)
    THEN ALERT_THRESHOLDS["RAIN"]
    ELSE IF /\ temp >= ALERT_THRESHOLDS["SUN"].uv_temp
            /\ ~startswith_any(weather_id, SUN_EXCLUDED)
    THEN ALERT_THRESHOLDS["SUN"]
    ELSE None

-----------------------------------------------------------------------------
\* The classification step of display_weather

\* Mutant of category_key: the last character instead of the first.
category_key_last(weather_id) ==
    IF weather_id # <<>> THEN weather_id[Len(weather_id)] ELSE "default"

\* category_key = weather_id[0] if weather_id else "default"
category_key(weather_id) == IF weather_id # <<>> THEN weather_id[1] ELSE "default"

\* Mutant of classify: no exact match on "800" before the first-character rule.
classify_first_character_only(weather_id) ==
    Get(WEATHER_MAPPING, category_key(weather_id), WEATHER_MAPPING["default"])

\* Mutant of classify: a first character without an entry falls back to the
\* clouds entry instead of the "default" entry.
classify_fallback_clouds(weather_id) ==
    IF weather_id = <<"8", "0", "0">>
    THEN WEATHER_MAPPING["800"]
    ELSE Get(WEATHER_MAPPING, category_key(weather_id), WEATHER_MAPPING["8"])

\* mapping, as display_weather chooses it
classify(weather_id) ==
    IF weather_id = <<"8", "0", "0">>
    THEN WEATHER_MAPPING["800"]
    ELSE Get(WEATHER_MAPPING, category_key(weather_id), WEATHER_MAPPING["default"])

-----------------------------------------------------------------------------
\* The inputs

\* What the user may have typed in the city field.
CityInputs == {<<>>, <<" ">>, <<" ", "P", " ">>}

\* Temperatures of the fetched data, in tenths of a degree.
Temperatures == {50, 51, 279, 280, 349, 350}

\* The "main" entry of the fetched data: absent (<<>>), or present (<<m>>)
\* without or with a "temp".
MainOptions ==
    {<<>>, <<EmptyDict>>} \cup {<<[temp |-> t]>> : t \in Temperatures}

\* The "id" of a weather entry: the provider sends an int; a str is accepted.
WeatherIds ==
    {PyInt(n) : n \in {800, 801, 500, 211, 600, 300, 701, 900}} \cup {PyStr(<<>>)}

\* The "weather" entry of the fetched data: absent (<<>>), or present (<<w>>)
\* as a list that is empty, or holds one entry without or with an "id".
WeatherOptions ==
    {<<>>, << <<>> >>, << <<EmptyDict>> >>} \cup {<< <<[id |-> i]>> >> : i \in WeatherIds}

\* The dict with a "main" key when mo holds a value and a "weather" key when wo does.
MkData(mo, wo) ==
    [k \in (IF mo = <<>> THEN {} ELSE {"main"}) \cup (IF wo = <<>> THEN {} ELSE {"weather"}) |->
        IF k = "main" THEN mo[1] ELSE wo[1]]

\* What weather_service.get_weather may return.
FetchedData == {MkData(mo, wo) : mo \in MainOptions, wo \in WeatherOptions}

\* What weather_service.get_weather may raise.
Exceptions ==
    {[type |-> "CityNotFoundError", message |-> "City not found"],
     [type |-> "NetworkError", message |-> "Network error"],
     [type |-> "WeatherServiceError", message |-> "Weather service error"],
     [type |-> "Exception", message |-> "boom"]}

\* isinstance(e, WeatherServiceError)
IsWeatherServiceError(e) ==
    e.type \in {"WeatherServiceError", "CityNotFoundError", "NetworkError"}

-----------------------------------------------------------------------------
\* The user interface

\* The fields build_ui and setup_page set.
InitialUi ==
    [loading_visible |-> FALSE,
     error_message_value |-> <<>>,
     error_message_visible |-> FALSE,
     weather_container_visible |-> FALSE,
     weather_container_content |-> None,
     alert_banner_visible |-> FALSE,
     alert_banner_bgcolor |-> "unset",
     alert_banner_content_value |-> "",
     custom_icon_display_value |-> "magnifying glass",
     page_bgcolor |-> "WHITE"]

\* Mutant of show_error: the page background is not reset.
show_error_keeps_bgcolor(u, message) ==
    [u EXCEPT !.error_message_value = <<"(cross mark) ", message>>,
              !.error_message_visible = TRUE,
              !.weather_container_visible = FALSE,
              !.alert_banner_visible = FALSE]

\* Mutant of show_error: the weather container is not hidden.
show_error_keeps_container(u, message) ==
    [u EXCEPT !.error_message_value = <<"(cross mark) ", message>>,
              !.error_message_visible = TRUE,
              !.alert_banner_visible = FALSE,
              !.page_bgcolor = "WHITE"]

\* show_error up to its page.update(): the fields it sets.
show_error(u, message) ==
    [u EXCEPT !.error_message_value = <<"(cross mark) ", message>>,
              !.error_message_visible = TRUE,
              !.weather_container_visible = FALSE,
              !.alert_banner_visible = FALSE,
              !.page_bgcolor = "WHITE"]

\* temp = data.get("main", {}).get("temp", 0)
temp_of(data) == Get(Get(data, "main", EmptyDict), "temp", 0)

\* data.get("weather", [{}])
weather_of(data) == Get(data, "weather", <<EmptyDict>>)

\* Mutant of weather_id_of: the default of a missing "id" is the empty string.
weather_id_of_default_empty(data) ==
    str(Get(Get(data, "weather", <<EmptyDict>>)[1], "id", PyStr(<<>>)))

\* weather_id = str(data.get("weather", [{}])[0].get("id", "0")), for a
\* non-empty list
weather_id_of(data) == str(Get(weather_of(data)[1], "id", PyStr(<<"0">>)))

\* Mutant of set_alert_banner: no else branch, the banner is never hidden.
set_alert_banner_no_else(u, alert) ==
    IF alert # None /\ alert # EmptyDict
    THEN [u EXCEPT !.alert_banner_content_value = alert.recommendation,
                   !.alert_banner_bgcolor = alert.color,
                   !.alert_banner_visible = TRUE]
    ELSE u

\* if alert: ... else: ...  (None and {} are falsy)
set_alert_banner(u, alert) ==
    IF alert # None /\ alert # EmptyDict
    THEN [u EXCEPT !.alert_banner_content_value = alert.recommendation,
                   !.alert_banner_bgcolor = alert.color,
                   !.alert_banner_visible = TRUE]
    ELSE [u EXCEPT !.alert_banner_visible = FALSE]

\* The content of the weather container: the temperature it prints, and
\* weather_id as the tag of the observation whose fields it prints.
content_of(temp, weather_id) == [temp |-> temp, weather_id |-> weather_id]

\* display_weather(data) from the fields u: whether it raised (indexing an
\* empty "weather" list raises IndexError before any field is set), the
\* fields after it, what its two page.update() calls painted, and the
\* values it passed to and got from the classification step and check_alerts.
display_weather(u, data) ==
    IF weather_of(data) = <<>>
    THEN [raised |-> TRUE, ui |-> u, repaints |-> <<>>]
    ELSE
      LET temp == temp_of(data)
          weather_id == weather_id_of(data)
          mapping == classify(weather_id)
          alert == check_alerts(temp, weather_id)
          u1 == set_alert_banner(u, alert)
          u2 == [u1 EXCEPT !.custom_icon_display_value = mapping.icon,
                           !.page_bgcolor = mapping.color,
                           !.weather_container_content = content_of(temp, weather_id),
                           !.weather_container_visible = TRUE]
          u3 == [u2 EXCEPT !.error_message_visible = FALSE]
      IN  [raised |-> FALSE, ui |-> u3, repaints |-> <<u2, u3>>,
           temp |-> temp, weather_id |-> weather_id,
           mapping |-> mapping, alert |-> alert]

-----------------------------------------------------------------------------
\* The steps

Init ==
    /\ city_input = <<>>
    /\ scheduled = 0
    /\ pending = EmptyBag
    /\ searches = 0
    /\ ui = InitialUi
    /\ repaints = <<>>
    /\ op = [name |-> "init"]

\* The user edits the city field.
edit_city ==
    /\ \E v \in CityInputs \ {city_input} : city_input' = v
    /\ repaints' = <<>>
    /\ op' = [name |-> "edit_city"]
    /\ UNCHANGED <<scheduled, pending, searches, ui>>

\* on_search: page.run_task(self.get_weather)
on_search ==
    /\ searches < MaxSearches
    /\ searches' = searches + 1
    /\ scheduled' = scheduled + 1
    /\ repaints' = <<>>
    /\ op' = [name |-> "on_search"]
    /\ UNCHANGED <<city_input, pending, ui>>

\* get_weather from its start: to the return of the empty-city branch, or to
\* the await.
get_weather_start ==
    /\ scheduled > 0
    /\ scheduled' = scheduled - 1
    /\ LET city == strip(city_input) IN
         IF city = <<>>
         THEN LET u == show_error(ui, "Please enter a city name.") IN
                /\ ui' = u
                /\ repaints' = <<u>>
                /\ pending' = pending
                /\ op' = [name |-> "empty_city"]
         ELSE LET u == [ui EXCEPT !.loading_visible = TRUE,
                                   !.error_message_visible = FALSE,
                                   !.weather_container_visible = FALSE,
                                   !.alert_banner_visible = FALSE] IN
                /\ ui' = u
                /\ repaints' = <<u>>
                /\ pending' = pending (+) SetToBag({city})
                /\ op' = [name |-> "fetching", city |-> city]
    /\ UNCHANGED <<city_input, searches>>

\* finally: self.loading.visible = False; self.page.update()
finally(u) == [u EXCEPT !.loading_visible = FALSE]

\* get_weather from the await, the fetch returning data.
fetch_returns ==
    \E city \in BagToSet(pending), data \in FetchedData :
        LET r == display_weather(ui, data) IN
        /\ pending' = pending (-) SetToBag({city})
        /\ IF r.raised
           THEN LET u == show_error(r.ui, "An unexpected error occurred. Please try again.") IN
                  /\ ui' = finally(u)
                  /\ repaints' = r.repaints \o <<u, finally(u)>>
                  /\ op' = [name |-> "display_raised", data |-> data]
           ELSE /\ ui' = finally(r.ui)
                /\ repaints' = r.repaints \o <<finally(r.ui)>>
                /\ op' = [name |-> "displayed", data |-> data,
                          temp |-> r.temp, weather_id |-> r.weather_id,
                          mapping |-> r.mapping, alert |-> r.alert,
                          banner_was_visible |-> ui.alert_banner_visible]
        /\ UNCHANGED <<city_input, scheduled, searches>>

\* get_weather from the await, the fetch raising e.
fetch_raises ==
    \E city \in BagToSet(pending), e \in Exceptions :
        LET message == IF IsWeatherServiceError(e)
                       THEN e.message
                       ELSE "An unexpected error occurred. Please try again."
            u == show_error(ui, message)
        IN
        /\ pending' = pending (-) SetToBag({city})
        /\ ui' = finally(u)
        /\ repaints' = <<u, finally(u)>>
        /\ op' = [name |-> "fetch_failed", exception |-> e]
        /\ UNCHANGED <<city_input, scheduled, searches>>

Next ==
    \/ edit_city
    \/ on_search
    \/ get_weather_start
    \/ fetch_returns
    \/ fetch_raises

Spec == Init /\ [][Next]_vars

-----------------------------------------------------------------------------
\* The claims

\* The code begins with the character ch.
Begins(code, ch) == Len(code) >= 1 /\ code[1] = ch

\* The predicate of the rule named r, as the specification words it.
RuleHolds(r, t, code) ==
    CASE r = "HEAT" -> t >= 350
      [] r = "COLD" -> t <= 50
      [] r = "RAIN" -> Begins(code, "5") \/ Begins(code, "2")
      [] r = "SUN" -> /\ t >= 280
                      /\ ~(Begins(code, "6") \/ Begins(code, "2") \/ Begins(code, "5"))

RuleOrder == <<"HEAT", "COLD", "RAIN", "SUN">>

\* The alert of the first rule of RuleOrder whose predicate holds, else None.
FirstRuleAlert(t, code) ==
    LET matching == {i \in DOMAIN RuleOrder : RuleHolds(RuleOrder[i], t, code)} IN
    IF matching = {}
    THEN None
    ELSE ALERT_THRESHOLDS[RuleOrder[CHOOSE i \in matching : \A j \in matching : i <= j]]

\* The last step was a display_weather call that ran to its end.
Displayed == op.name = "displayed"

\* C1: check_alerts returns the alert of the first rule, in the order HEAT,
\* COLD, RAIN, SUN, whose predicate holds, and None when none holds.
C1_FirstRuleWins ==
    Displayed => op.alert = FirstRuleAlert(op.temp, op.weather_id)

\* C1's case: 5.0 degrees with a rain code yields COLD.
C1_Witness ==
    /\ Displayed
    /\ op.temp = 50
    /\ op.weather_id = <<"5", "0", "0">>
    /\ op.alert = ALERT_THRESHOLDS["COLD"]

\* C2: for 28.0 <= t < 35.0, check_alerts returns SUN exactly when the code
\* does not begin with "6", "2" or "5"; a code beginning with "6" yields no
\* alert.
C2_SunExclusion ==
    (Displayed /\ 280 <= op.temp /\ op.temp < 350) =>
        LET code == op.weather_id
            excluded == Begins(code, "6") \/ Begins(code, "2") \/ Begins(code, "5")
        IN  /\ (op.alert = ALERT_THRESHOLDS["SUN"]) <=> ~excluded
            /\ Begins(code, "6") => op.alert = None

\* C2's case: 28.0 degrees with a mist code yields SUN.
C2_Witness ==
    /\ Displayed
    /\ op.temp = 280
    /\ op.weather_id = <<"7", "0", "1">>
    /\ op.alert = ALERT_THRESHOLDS["SUN"]

\* C3: the code "800" maps to the entry under key "800" and not to the one
\* under "8"; every other code beginning with "8" maps to the entry under "8".
C3_ClearSkyBeforeClouds ==
    Displayed =>
        /\ op.weather_id = <<"8", "0", "0">> =>
              /\ op.mapping = WEATHER_MAPPING["800"]
              /\ op.mapping # WEATHER_MAPPING["8"]
        /\ (Begins(op.weather_id, "8") /\ op.weather_id # <<"8", "0", "0">>) =>
              op.mapping = WEATHER_MAPPING["8"]

\* C3's case: the code "800" was classified and the sun icon is shown.
C3_Witness ==
    /\ Displayed
    /\ op.weather_id = <<"8", "0", "0">>
    /\ ui.custom_icon_display_value = "sun"

\* The first characters that have an entry of their own.
CategoryCharacters == {"2", "3", "5", "6", "7", "8"}

\* C4: the classification step yields exactly one entry of WEATHER_MAPPING,
\* with a color and an icon, for every code; for the empty code and for a
\* first character outside "2","3","5","6","7","8" it is the "default" entry.
C4_ClassifyTotal ==
    Displayed =>
        /\ \E k \in DOMAIN WEATHER_MAPPING : op.mapping = WEATHER_MAPPING[k]
        /\ DOMAIN op.mapping = {"color", "icon"}
        /\ ui.custom_icon_display_value = op.mapping.icon
        /\ (op.weather_id = <<>> \/ op.weather_id[1] \notin CategoryCharacters) =>
              op.mapping = WEATHER_MAPPING["default"]

\* C4's case: the empty code was classified.
C4_Witness ==
    /\ Displayed
    /\ op.weather_id = <<>>
    /\ op.mapping = WEATHER_MAPPING["default"]

\* C5 as stated: for every code whose first character d is a key of the
\* table the icon is the one under d, and for any other first character it is
\* the "default" icon.
C5_Original ==
    (Displayed /\ op.weather_id # <<>>) =>
        LET d == op.weather_id[1] IN
        IF d \in CategoryCharacters
        THEN op.mapping.icon = WEATHER_MAPPING[d].icon
        ELSE op.mapping.icon = WEATHER_MAPPING["default"].icon

\* C5 amended: the same for every code other than "800"; for the code "800"
\* the icon is the one under key "800".
C5_Amended ==
    (Displayed /\ op.weather_id # <<>>) =>
        LET d == op.weather_id[1] IN
        IF op.weather_id = <<"8", "0", "0">>
        THEN op.mapping.icon = WEATHER_MAPPING["800"].icon
        ELSE IF d \in CategoryCharacters
        THEN op.mapping.icon = WEATHER_MAPPING[d].icon
        ELSE op.mapping.icon = WEATHER_MAPPING["default"].icon

\* C5's case: a clouds code other than "800" was classified.
C5_Witness ==
    /\ Displayed
    /\ op.weather_id = <<"8", "0", "1">>
    /\ op.mapping.icon = "cloud"

\* The fields that only display_weather writes.
DisplayFields(u) ==
    <<u.custom_icon_display_value, u.weather_container_content,
      u.alert_banner_content_value, u.alert_banner_bgcolor>>

\* C6: a get_weather whose fetch raises (CityNotFoundError, NetworkError or
\* any other exception) runs neither the classification step nor check_alerts
\* (the fields that only display_weather writes keep their values), and ends
\* with the error message visible, the weather container and the alert banner
\* hidden, the page background white and the loading indicator hidden.
C6_FetchFailureEndsInErrorState ==
    [][op'.name = "fetch_failed" =>
          /\ DisplayFields(ui') = DisplayFields(ui)
          /\ ui'.error_message_visible
          /\ ~ui'.weather_container_visible
          /\ ~ui'.alert_banner_visible
          /\ ui'.page_bgcolor = "WHITE"
          /\ ~ui'.loading_visible]_vars

\* C6's case: a fetch raised CityNotFoundError after another query's
\* observation had been displayed.
C6_Witness ==
    /\ op.name = "fetch_failed"
    /\ op.exception.type = "CityNotFoundError"
    /\ ui.custom_icon_display_value = "sun"
    /\ ui.error_message_visible

\* The fields u paints all derive from the observation in its container.
OneObservation(u) ==
    LET temp == u.weather_container_content.temp
        code == u.weather_container_content.weather_id
        alert == FirstRuleAlert(temp, code)
        key == IF code = <<"8", "0", "0">> THEN "800"
               ELSE IF code # <<>> /\ code[1] \in CategoryCharacters THEN code[1]
               ELSE "default"
    IN  /\ u.page_bgcolor = WEATHER_MAPPING[key].color
        /\ u.custom_icon_display_value = WEATHER_MAPPING[key].icon
        /\ u.alert_banner_visible <=> (alert # None)
        /\ u.alert_banner_visible =>
              /\ u.alert_banner_bgcolor = alert.color
              /\ u.alert_banner_content_value = alert.recommendation

\* C7: at every repaint in which the weather container is visible, the page
\* background, the icon and the alert banner (whether it is visible, and its
\* color and text when it is) derive from the one observation shown in the
\* container, under every interleaving of get_weather coroutines.
C7_OneObservationPerRepaint ==
    \A i \in DOMAIN repaints :
        repaints[i].weather_container_visible => OneObservation(repaints[i])

\* C7's case: an observation is painted while another query is still pending
\* at its await.
C7_Witness ==
    /\ Displayed
    /\ pending # EmptyBag
    /\ \E i \in DOMAIN repaints : repaints[i].weather_container_visible

\* C8: after a display_weather call the alert banner is visible exactly when
\* check_alerts returned an alert, with that alert's color and
\* recommendation; when check_alerts returned None it is hidden.
C8_BannerFollowsAlert ==
    Displayed =>
        IF op.alert # None
        THEN /\ ui.alert_banner_visible
             /\ ui.alert_banner_bgcolor = op.alert.color
             /\ ui.alert_banner_content_value = op.alert.recommendation
        ELSE ~ui.alert_banner_visible

\* C8's case: check_alerts returned None while the banner was showing the
\* alert of an earlier observation.
C8_Witness ==
    /\ Displayed
    /\ op.alert = None
    /\ op.banner_was_visible
    /\ ~ui.alert_banner_visible

\* The fetched data holds a temperature, a condition code.
HasTemp(data) == "main" \in DOMAIN data /\ "temp" \in DOMAIN data["main"]
HasId(data) == "weather" \in DOMAIN data /\ "id" \in DOMAIN data["weather"][1]

\* C9 as stated: a missing temperature is passed as 0.0 and a missing
\* condition code as the empty string.
C9_Original ==
    Displayed =>
        /\ ~HasTemp(op.data) => op.temp = 0
        /\ ~HasId(op.data) => op.weather_id = <<>>

\* C9 amended: a missing temperature is passed as 0 and a missing condition
\* code as the string "0".
C9_Amended ==
    Displayed =>
        /\ ~HasTemp(op.data) => op.temp = 0
        /\ ~HasId(op.data) => op.weather_id = <<"0">>

\* C9's case: data with neither a temperature nor a condition code was
\* displayed.
C9_Witness ==
    /\ Displayed
    /\ ~HasTemp(op.data)
    /\ ~HasId(op.data)
    /\ ui.weather_container_content = content_of(0, <<"0">>)

\* C10: at every repaint the error message and the weather container are
\* never both visible.
C10_ErrorAndWeatherExclusive ==
    \A i \in DOMAIN repaints :
        ~(repaints[i].error_message_visible /\ repaints[i].weather_container_visible)

====
